---- MODULE Spec2Model ----
(***************************************************************************)
(* State-machine model of the llama.cpp JNI bridge                         *)
(* (src/app/src/main/cpp/llama-jni.cpp).                                   *)
(*                                                                         *)
(* The five JNI entry points (nativeInit, nativeLoadModel, nativeGenerate, *)
(* nativeIsLoaded, nativeFree) run one at a time on the calling thread.    *)
(* Each entry point is split into the steps of its code, one step per      *)
(* library call that changes state; pc is the position inside the running  *)
(* entry point ("idle" between calls).  While pc # "idle" exactly the next *)
(* step of the running entry point is enabled, so a call always runs in    *)
(* the order of its code.                                                  *)
(*                                                                         *)
(* The llama.cpp library is the environment: whether a file parses,        *)
(* whether a context can be allocated, whether a decode succeeds and which *)
(* token the sampler draws are choices of the environment.                 *)
(***************************************************************************)
EXTENDS Integers, Sequences, FiniteSets, TLC

\* ------------------------------------------------------------------------
\* Bounds of the model
\* ------------------------------------------------------------------------

\* Number of models llama_model_load_from_file may hand out in one run.
MaxLoads == 2

\* Largest maxTokens argument a caller passes to nativeGenerate.
MaxGen == 3

\* ------------------------------------------------------------------------
\* Program constants
\* ------------------------------------------------------------------------

\* nullptr
NULL == 0

\* std::string::npos, the "not found" value of std::string::find
NPOS == -1

\* sizeof(buf) of the detokenization buffer
BufSize == 256

\* The ChatML stop marker "<|im_end|>", one element per character.
StopMarker == <<"<", "|", "i", "m", "_", "e", "n", "d", "|", ">">>

\* ------------------------------------------------------------------------
\* Strings (sequences of characters) and the std::string operations used
\* ------------------------------------------------------------------------

\* The positions (0-based) at which needle occurs in s.
Occurrences(s, needle) ==
    { p \in 0..(Len(s) - Len(needle)) : SubSeq(s, p + 1, p + Len(needle)) = needle }

\* std::string::find(needle): the first position of needle in s, or npos.
Find(s, needle) ==
    IF Occurrences(s, needle) = {}
    THEN NPOS
    ELSE CHOOSE p \in Occurrences(s, needle) :
             \A q \in Occurrences(s, needle) : p <= q

\* std::string::substr(0, pos)
Substr0(s, pos) == SubSeq(s, 1, pos)

\* The NUL character, which ends a C string.
NUL == "\\0"

\* std::string::c_str() read as a C string: the characters before the first NUL.
CStr(s) ==
    IF \E k \in 1..Len(s) : s[k] = NUL
    THEN SubSeq(s, 1, (CHOOSE k \in 1..Len(s) :
                          s[k] = NUL /\ \A j \in 1..(k - 1) : s[j] # NUL) - 1)
    ELSE s

\* A jstring reference: null, or a Java string with its characters.
NullJstring == [null |-> TRUE, chars |-> <<>>]
Jstring(s) == [null |-> FALSE, chars |-> s]

\* jstring_to_string: "" for a null reference, else the string's characters.
jstring_to_string(jstr) == IF jstr.null THEN <<>> ELSE jstr.chars

\* string_to_jstring: NewStringUTF(str.c_str())
string_to_jstring(str) == Jstring(CStr(str))

RECURSIVE Concat(_)
\* The concatenation of a sequence of strings.
Concat(ss) == IF ss = <<>> THEN <<>> ELSE Head(ss) \o Concat(Tail(ss))

\* ------------------------------------------------------------------------
\* The vocabulary of the loaded model (environment: a test vocabulary)
\* ------------------------------------------------------------------------

\* Token k of the vocabulary: whether it is an end-of-generation token and
\* the text it detokenizes to.  Token 1 is the end-of-generation token,
\* tokens 3 and 4 split the stop marker over two fragments, token 5 holds the
\* marker twice with text around it, token 6 is longer than the buffer.
\* No piece holds a NUL character, so c_str() keeps every returned text whole.
TestVocab == <<
    [eog |-> TRUE,  piece |-> <<"E">>],
    [eog |-> FALSE, piece |-> <<"a">>],
    [eog |-> FALSE, piece |-> <<"<", "|", "i", "m", "_">>],
    [eog |-> FALSE, piece |-> <<"e", "n", "d", "|", ">">>],
    [eog |-> FALSE, piece |-> <<"b">> \o StopMarker \o <<"c">> \o StopMarker],
    [eog |-> FALSE, piece |-> [k \in 1..(BufSize + 1) |-> "x"]] >>

Tokens == 1..Len(TestVocab)

\* llama_vocab_is_eog
llama_vocab_is_eog(tok) == TestVocab[tok].eog

\* llama_token_to_piece: the number of characters written to a buffer of
\* `size` characters, or minus the needed size when the piece does not fit.
llama_token_to_piece_n(tok, size) ==
    IF Len(TestVocab[tok].piece) > size
    THEN 0 - Len(TestVocab[tok].piece)
    ELSE Len(TestVocab[tok].piece)

\* The buffer contents after llama_token_to_piece returned n > 0.
llama_token_to_piece_buf(tok, n) == SubSeq(TestVocab[tok].piece, 1, n)

\* The token of a prompt character under the test vocabulary.
CharToken(c) == CHOOSE t \in Tokens : TestVocab[t].piece = <<c>>

\* The token sequence of a text (one token per character in the test vocabulary).
TokensOf(text) == [k \in 1..Len(text) |-> CharToken(text[k])]

\* llama_tokenize into a buffer of n_max tokens: the number of tokens, or
\* minus the needed number when they do not fit.
llama_tokenize(text, n_max) ==
    IF Len(TokensOf(text)) > n_max
    THEN 0 - Len(TokensOf(text))
    ELSE Len(TokensOf(text))

\* ------------------------------------------------------------------------
\* Inputs of the entry points
\* ------------------------------------------------------------------------

\* Model file paths: a null reference, a file that is no model, two models.
Paths == { NullJstring, Jstring(<<"x">>), Jstring(<<"a">>), Jstring(<<"b">>) }

\* The paths llama_model_load_from_file can parse.
ValidModelFiles == { <<"a">>, <<"b">> }

\* Context capacities (nCtx) a caller asks for.
NCtxValues == { 2, 3 }

\* Prompts: the empty prompt, prompts of one and three tokens (a null
\* reference is among the paths).
Prompts == { Jstring(<<>>), Jstring(<<"a">>), Jstring(<<"a", "a", "a">>) }

\* maxTokens arguments (jint: negative values are possible).
MaxTokensValues == (0 - 1)..MaxGen

\* temperature arguments (jfloat): 0 and below sample greedily, above 0 the
\* draw is random.
Temperatures == {0, 1}

\* Model and context handles; a context carries the number of the model it
\* was created from.
Handles == 1..MaxLoads

VARIABLES
    \* g_llama
    model, ctx, vocab, is_loaded,
    \* the library's state
    backend,        \* llama_backend_init has run and llama_backend_free has not
    aliveModels,    \* models allocated and not freed
    aliveCtxs,      \* contexts allocated and not freed
    modelFrees,     \* handle -> number of llama_model_free calls on it
    ctxFrees,       \* handle -> number of llama_free calls on it
    nModels,        \* number of models allocated so far
    n_ctx,          \* llama_n_ctx of the context g_llama.ctx
    kv,             \* the tokens in the KV cache of the context g_llama.ctx
    \* the running call
    pc,             \* position inside the running entry point
    arg,            \* the arguments of the running call
    prompt_tokens, n_prompt_tokens, sampler, result, i, new_token,
    \* what the running (or last) call did
    op,             \* the entry point running or last run
    afterFree,      \* the call before it was nativeFree
    lastLoadOk,     \* the last nativeLoadModel or nativeFree to return was a load that returned JNI_TRUE
    prev,           \* the outcome of the generate call just before, when the running one repeats it
    entry,          \* the engine and library state when the call started
    calls,          \* the library calls made by the call, in order
    sampled,        \* the tokens sampled by the call, in order
    exit,           \* the exit the call took
    ret             \* the value the call returned

gvars == <<model, ctx, vocab, is_loaded>>
libvars == <<backend, aliveModels, aliveCtxs, modelFrees, ctxFrees, nModels, n_ctx, kv>>
genvars == <<prompt_tokens, n_prompt_tokens, sampler, result, i, new_token>>
histvars == <<op, afterFree, lastLoadOk, prev, entry, calls, sampled, exit, ret>>
vars == <<gvars, libvars, pc, arg, genvars, histvars>>

\* No arguments / no return value.
NoArg == [kind |-> "none"]
NoRet == [kind |-> "void"]

\* No earlier generate call is remembered.
NoPrev == [valid |-> FALSE]
BoolRet(b) == [kind |-> "bool", flag |-> b]
TextRet(s) == [kind |-> "text", text |-> string_to_jstring(s).chars]

\* The engine and library state, as recorded when a call starts.
Snapshot ==
    [model |-> model, ctx |-> ctx, vocab |-> vocab, is_loaded |-> is_loaded,
     backend |-> backend, aliveModels |-> aliveModels, aliveCtxs |-> aliveCtxs,
     modelFrees |-> modelFrees, ctxFrees |-> ctxFrees, kvUsed |-> kv # <<>>]

\* A call of entry point name starts: the locals of the last call are gone and
\* the record of what it did is reset.
Enter(name, a) ==
    /\ pc = "idle"
    /\ arg' = a
    /\ prompt_tokens' = <<>> /\ n_prompt_tokens' = 0
    /\ result' = <<>> /\ i' = 0 /\ new_token' = 0
    /\ op' = name
    /\ afterFree' = (op = "free")
    /\ lastLoadOk' = lastLoadOk
    /\ entry' = Snapshot
    /\ sampled' = <<>>

\* The call that started goes on at position next; it has not returned yet.
Proceed(next) ==
    /\ pc' = next
    /\ exit' = "running"
    /\ ret' = NoRet

\* The running call returns value r by exit e.
Return(e, r) ==
    /\ pc' = "idle"
    /\ exit' = e
    /\ ret' = r

\* static LlamaContext g_llama; nothing initialised, nothing allocated.
Init ==
    /\ model = NULL /\ ctx = NULL /\ vocab = NULL /\ is_loaded = FALSE
    /\ backend = FALSE
    /\ aliveModels = {} /\ aliveCtxs = {}
    /\ modelFrees = [h \in Handles |-> 0]
    /\ ctxFrees = [h \in Handles |-> 0]
    /\ nModels = 0
    /\ n_ctx = 0
    /\ kv = <<>>
    /\ pc = "idle"
    /\ arg = NoArg
    /\ prompt_tokens = <<>> /\ n_prompt_tokens = 0 /\ sampler = 0
    /\ result = <<>> /\ i = 0 /\ new_token = 0
    /\ op = "none" /\ afterFree = FALSE /\ lastLoadOk = FALSE
    /\ prev = NoPrev
    /\ entry = Snapshot
    /\ calls = <<>> /\ sampled = <<>>
    /\ exit = "none"
    /\ ret = NoRet

\* ------------------------------------------------------------------------
\* The library calls that allocate and release
\* ------------------------------------------------------------------------

\* llama_free(c): the context c is released.
llama_free(c) ==
    /\ aliveCtxs' = aliveCtxs \ {c}
    /\ ctxFrees' = [ctxFrees EXCEPT ![c] = @ + 1]

\* llama_model_free(m): the model m is released.
llama_model_free(m) ==
    /\ aliveModels' = aliveModels \ {m}
    /\ modelFrees' = [modelFrees EXCEPT ![m] = @ + 1]

\* ------------------------------------------------------------------------
\* nativeInit
\* ------------------------------------------------------------------------

nativeInit ==
    /\ Enter("init", NoArg)
    /\ prev' = NoPrev
    /\ backend' = TRUE
    /\ calls' = <<"llama_backend_init">>
    /\ Return("done", NoRet)
    /\ UNCHANGED <<gvars, aliveModels, aliveCtxs, modelFrees, ctxFrees, nModels,
                   n_ctx, kv, sampler>>

\* ------------------------------------------------------------------------
\* nativeIsLoaded
\* ------------------------------------------------------------------------

nativeIsLoaded ==
    /\ Enter("isLoaded", NoArg)
    /\ prev' = NoPrev
    /\ calls' = <<>>
    /\ Return("done", BoolRet(is_loaded))
    /\ UNCHANGED <<gvars, libvars, sampler>>

\* ------------------------------------------------------------------------
\* nativeLoadModel
\* ------------------------------------------------------------------------

\* A load that never looks at the loaded flag, and so never releases first.
AlreadyLoaded_never == FALSE

\* if (g_llama.is_loaded): a model is loaded and has to be released first.
AlreadyLoaded == is_loaded

\* The call starts; the number of models one run allocates is bounded.
nativeLoadModel(modelPath, nCtx) ==
    /\ nModels < MaxLoads
    /\ Enter("loadModel", [kind |-> "load", modelPath |-> modelPath, nCtx |-> nCtx])
    /\ prev' = NoPrev
    /\ calls' = <<>>
    /\ Proceed(IF AlreadyLoaded THEN "L_free_ctx" ELSE "L_load")
    /\ UNCHANGED <<gvars, libvars, sampler>>

\* if (g_llama.ctx) { llama_free(g_llama.ctx); g_llama.ctx = nullptr; }
LoadFreeCtx ==
    /\ pc = "L_free_ctx"
    /\ IF ctx # NULL
       THEN /\ llama_free(ctx)
            /\ ctx' = NULL
            /\ n_ctx' = 0
            /\ kv' = <<>>
            /\ calls' = Append(calls, "llama_free")
       ELSE UNCHANGED <<aliveCtxs, ctxFrees, ctx, n_ctx, kv, calls>>
    /\ pc' = "L_free_model"
    /\ UNCHANGED <<model, vocab, is_loaded, backend, aliveModels, modelFrees, nModels,
                   arg, genvars, op, afterFree, lastLoadOk, prev, entry, sampled, exit, ret>>

\* if (g_llama.model) { llama_model_free(g_llama.model); g_llama.model = nullptr; }
\* g_llama.is_loaded = false;
LoadFreeModel ==
    /\ pc = "L_free_model"
    /\ IF model # NULL
       THEN /\ llama_model_free(model)
            /\ model' = NULL
            /\ calls' = Append(calls, "llama_model_free")
       ELSE UNCHANGED <<aliveModels, modelFrees, model, calls>>
    /\ is_loaded' = FALSE
    /\ pc' = "L_load"
    /\ UNCHANGED <<ctx, vocab, backend, aliveCtxs, ctxFrees, nModels, n_ctx, kv,
                   arg, genvars, op, afterFree, lastLoadOk, prev, entry, sampled, exit, ret>>

\* g_llama.model = llama_model_load_from_file(path, params);
\* if (!g_llama.model) return JNI_FALSE;
LoadModelFile ==
    /\ pc = "L_load"
    /\ calls' = Append(calls, "llama_model_load_from_file")
    /\ IF jstring_to_string(arg.modelPath) \in ValidModelFiles
       THEN /\ model' = nModels + 1
            /\ nModels' = nModels + 1
            /\ aliveModels' = aliveModels \cup {nModels + 1}
            /\ pc' = "L_ctx"
            /\ UNCHANGED <<exit, ret, lastLoadOk>>
       ELSE /\ model' = NULL
            /\ Return("load_failed", BoolRet(FALSE))
            /\ lastLoadOk' = FALSE
            /\ UNCHANGED <<nModels, aliveModels>>
    /\ UNCHANGED <<ctx, vocab, is_loaded, backend, aliveCtxs, modelFrees, ctxFrees,
                   n_ctx, kv, arg, genvars, op, afterFree, prev, entry, sampled>>

\* A context creation that leaves the stored vocabulary handle as it was.
LoadCreateCtx_staleVocab ==
    /\ pc = "L_ctx"
    /\ calls' = calls \o <<"llama_model_get_vocab", "llama_init_from_model">>
    /\ \E allocated \in BOOLEAN :
          IF allocated
          THEN /\ ctx' = model
               /\ aliveCtxs' = aliveCtxs \cup {model}
               /\ n_ctx' = arg.nCtx
               /\ kv' = <<>>
          ELSE /\ ctx' = NULL
               /\ n_ctx' = 0
               /\ kv' = <<>>
               /\ UNCHANGED aliveCtxs
    /\ pc' = "L_check"
    /\ UNCHANGED <<model, vocab, is_loaded, backend, aliveModels, modelFrees, ctxFrees,
                   nModels, arg, genvars, op, afterFree, lastLoadOk, prev, entry, sampled, exit, ret>>

\* g_llama.vocab = llama_model_get_vocab(g_llama.model);
\* g_llama.ctx = llama_init_from_model(g_llama.model, ctx_params);
\* The library may fail to allocate the context.
LoadCreateCtx ==
    /\ pc = "L_ctx"
    /\ vocab' = model
    /\ calls' = calls \o <<"llama_model_get_vocab", "llama_init_from_model">>
    /\ \E allocated \in BOOLEAN :
          IF allocated
          THEN /\ ctx' = model
               /\ aliveCtxs' = aliveCtxs \cup {model}
               /\ n_ctx' = arg.nCtx
               /\ kv' = <<>>
          ELSE /\ ctx' = NULL
               /\ n_ctx' = 0
               /\ kv' = <<>>
               /\ UNCHANGED aliveCtxs
    /\ pc' = "L_check"
    /\ UNCHANGED <<model, is_loaded, backend, aliveModels, modelFrees, ctxFrees, nModels,
                   arg, genvars, op, afterFree, lastLoadOk, prev, entry, sampled, exit, ret>>

\* A failure path that returns without releasing the model it parsed.
LoadCtxFailed_keepsModel ==
    /\ pc = "L_check"
    /\ ctx = NULL
    /\ Return("ctx_failed", BoolRet(FALSE))
    /\ lastLoadOk' = FALSE
    /\ UNCHANGED <<gvars, libvars, arg, genvars, op, afterFree, prev, entry, calls, sampled>>

\* if (!g_llama.ctx) { llama_model_free(g_llama.model); g_llama.model = nullptr;
\*                     return JNI_FALSE; }
LoadCtxFailed ==
    /\ pc = "L_check"
    /\ ctx = NULL
    /\ llama_model_free(model)
    /\ model' = NULL
    /\ calls' = Append(calls, "llama_model_free")
    /\ Return("ctx_failed", BoolRet(FALSE))
    /\ lastLoadOk' = FALSE
    /\ UNCHANGED <<ctx, vocab, is_loaded, backend, aliveCtxs, ctxFrees, nModels, n_ctx, kv,
                   arg, genvars, op, afterFree, prev, entry, sampled>>

\* g_llama.is_loaded = true; return JNI_TRUE;
LoadDone ==
    /\ pc = "L_check"
    /\ ctx # NULL
    /\ is_loaded' = TRUE
    /\ Return("loaded", BoolRet(TRUE))
    /\ lastLoadOk' = TRUE
    /\ UNCHANGED <<model, ctx, vocab, libvars, arg, genvars, op, afterFree, prev, entry, calls,
                   sampled>>

\* ------------------------------------------------------------------------
\* nativeFree
\* ------------------------------------------------------------------------

nativeFree ==
    /\ Enter("free", NoArg)
    /\ prev' = NoPrev
    /\ calls' = <<>>
    /\ Proceed("F_ctx")
    /\ UNCHANGED <<gvars, libvars, sampler>>

\* A free that releases the context and keeps the dangling handle.
FreeCtx_keepsHandle ==
    /\ pc = "F_ctx"
    /\ IF ctx # NULL
       THEN /\ llama_free(ctx)
            /\ n_ctx' = 0
            /\ kv' = <<>>
            /\ calls' = Append(calls, "llama_free")
       ELSE UNCHANGED <<aliveCtxs, ctxFrees, n_ctx, kv, calls>>
    /\ pc' = "F_model"
    /\ UNCHANGED <<gvars, backend, aliveModels, modelFrees, nModels,
                   arg, genvars, op, afterFree, lastLoadOk, prev, entry, sampled, exit, ret>>

\* A free that forgets the context and goes straight on to the model.
FreeCtx_forgotten ==
    /\ pc = "F_ctx"
    /\ pc' = "F_model"
    /\ UNCHANGED <<gvars, libvars, arg, genvars, histvars>>

\* if (g_llama.ctx) { llama_free(g_llama.ctx); g_llama.ctx = nullptr; }
FreeCtx ==
    /\ pc = "F_ctx"
    /\ IF ctx # NULL
       THEN /\ llama_free(ctx)
            /\ ctx' = NULL
            /\ n_ctx' = 0
            /\ kv' = <<>>
            /\ calls' = Append(calls, "llama_free")
       ELSE UNCHANGED <<aliveCtxs, ctxFrees, ctx, n_ctx, kv, calls>>
    /\ pc' = "F_model"
    /\ UNCHANGED <<model, vocab, is_loaded, backend, aliveModels, modelFrees, nModels,
                   arg, genvars, op, afterFree, lastLoadOk, prev, entry, sampled, exit, ret>>

\* if (g_llama.model) { llama_model_free(g_llama.model); g_llama.model = nullptr; }
FreeModel ==
    /\ pc = "F_model"
    /\ IF model # NULL
       THEN /\ llama_model_free(model)
            /\ model' = NULL
            /\ calls' = Append(calls, "llama_model_free")
       ELSE UNCHANGED <<aliveModels, modelFrees, model, calls>>
    /\ pc' = "F_backend"
    /\ UNCHANGED <<ctx, vocab, is_loaded, backend, aliveCtxs, ctxFrees, nModels, n_ctx, kv,
                   arg, genvars, op, afterFree, lastLoadOk, prev, entry, sampled, exit, ret>>

\* A free that releases the backend and leaves the loaded flag set.
FreeBackend_keepsFlag ==
    /\ pc = "F_backend"
    /\ backend' = FALSE
    /\ calls' = Append(calls, "llama_backend_free")
    /\ Return("done", NoRet)
    /\ lastLoadOk' = FALSE
    /\ UNCHANGED <<gvars, aliveModels, aliveCtxs, modelFrees, ctxFrees,
                   nModels, n_ctx, kv, arg, genvars, op, afterFree, prev, entry, sampled>>

\* g_llama.is_loaded = false; llama_backend_free();
FreeBackend ==
    /\ pc = "F_backend"
    /\ is_loaded' = FALSE
    /\ backend' = FALSE
    /\ calls' = Append(calls, "llama_backend_free")
    /\ Return("done", NoRet)
    /\ lastLoadOk' = FALSE
    /\ UNCHANGED <<model, ctx, vocab, aliveModels, aliveCtxs, modelFrees, ctxFrees,
                   nModels, n_ctx, kv, arg, genvars, op, afterFree, prev, entry, sampled>>

\* ------------------------------------------------------------------------
\* nativeGenerate
\* ------------------------------------------------------------------------

\* A generate without the not-loaded check.
NotLoaded_unchecked == FALSE

\* if (!g_llama.is_loaded || !g_llama.ctx || !g_llama.model)
NotLoaded == ~is_loaded \/ ctx = NULL \/ model = NULL

\* The arguments of a generate call.
GenerateArg(prompt, maxTokens, temperature) ==
    [kind |-> "generate", prompt |-> prompt, maxTokens |-> maxTokens,
     temperature |-> temperature]

\* The call starts; when no model is loaded it returns "" at once.
GenerateCall(prompt, maxTokens, temperature) ==
    /\ Enter("generate", GenerateArg(prompt, maxTokens, temperature))
    /\ calls' = <<>>
    /\ IF NotLoaded
       THEN Return("not_loaded", TextRet(<<>>))
       ELSE Proceed("G_clear")
    /\ UNCHANGED <<gvars, libvars, sampler>>

nativeGenerate(prompt, maxTokens, temperature) ==
    /\ GenerateCall(prompt, maxTokens, temperature)
    /\ prev' = NoPrev

\* What the generate call that has just returned produced, when the call that
\* starts now repeats it with the arguments a on the same loaded model.
Remembered(a) ==
    IF op = "generate" /\ arg = a /\ entry.is_loaded /\ is_loaded /\ model = entry.model
    THEN [valid |-> TRUE, exit |-> exit, i |-> i, text |-> ret.text,
          cleared |-> \E k \in 1..Len(calls) : calls[k] = "llama_memory_clear"]
    ELSE NoPrev

\* The same call, with the outcome of the generate call before it remembered.
nativeGenerateAgain(prompt, maxTokens, temperature) ==
    /\ GenerateCall(prompt, maxTokens, temperature)
    /\ prev' = Remembered(GenerateArg(prompt, maxTokens, temperature))

\* llama_get_memory(c): the answers the library can give for context c: its
\* memory (the KV cache, named like the context), or none.
llama_get_memory(c) == {NULL, c}

\* llama_memory_t mem = llama_get_memory(g_llama.ctx);
\* if (mem) llama_memory_clear(mem, true);
\* Without a memory handle the clear is skipped and the cache stays as the
\* earlier calls left it.
GenClear ==
    /\ pc = "G_clear"
    /\ \E mem \in llama_get_memory(ctx) :
          IF mem # NULL
          THEN /\ kv' = <<>>
               /\ calls' = calls \o <<"llama_get_memory", "llama_memory_clear">>
          ELSE /\ calls' = Append(calls, "llama_get_memory")
               /\ UNCHANGED kv
    /\ pc' = "G_tokenize"
    /\ UNCHANGED <<gvars, backend, aliveModels, aliveCtxs, modelFrees, ctxFrees, nModels,
                   n_ctx, arg, genvars, op, afterFree, lastLoadOk, prev, entry, sampled, exit, ret>>

\* A tokenize step that ignores the overflow and goes on with the tokens that fit.
GenTokenize_truncates ==
    /\ pc = "G_tokenize"
    /\ calls' = calls \o <<"llama_n_ctx", "llama_tokenize">>
    /\ prompt_tokens' =
          IF llama_tokenize(jstring_to_string(arg.prompt), n_ctx) < 0
          THEN SubSeq(TokensOf(jstring_to_string(arg.prompt)), 1, n_ctx)
          ELSE TokensOf(jstring_to_string(arg.prompt))
    /\ n_prompt_tokens' = Len(prompt_tokens')
    /\ pc' = "G_prefill"
    /\ UNCHANGED <<gvars, libvars, arg, sampler, result, i, new_token, op, afterFree, lastLoadOk, prev, entry,
                   sampled, exit, ret>>

\* n_prompt_max = llama_n_ctx(ctx); n_prompt_tokens = llama_tokenize(...);
\* if (n_prompt_tokens < 0) return ""; prompt_tokens.resize(n_prompt_tokens);
GenTokenize ==
    /\ pc = "G_tokenize"
    /\ calls' = calls \o <<"llama_n_ctx", "llama_tokenize">>
    /\ n_prompt_tokens' = llama_tokenize(jstring_to_string(arg.prompt), n_ctx)
    /\ IF n_prompt_tokens' < 0
       THEN /\ Return("tokenize_failed", TextRet(<<>>))
            /\ UNCHANGED prompt_tokens
       ELSE /\ prompt_tokens' = TokensOf(jstring_to_string(arg.prompt))
            /\ pc' = "G_prefill"
            /\ UNCHANGED <<exit, ret>>
    /\ UNCHANGED <<gvars, libvars, arg, sampler, result, i, new_token, op, afterFree, lastLoadOk, prev, entry,
                   sampled>>

\* The tokens a failed decode of batch may leave in the cache: any proper prefix.
PartialDecodes(batch) ==
    { SubSeq(batch, 1, k) : k \in 0..(Len(batch) - 1) }

\* The part of a failed batch that may have reached a cache with room for
\* cap positions.
PartialDecodesInto(cache, batch, cap) ==
    { done \in PartialDecodes(batch) \cup {<<>>} : Len(cache) + Len(done) <= cap }

\* llama_decode(ctx, batch): whether it can succeed.  The library may fail any
\* decode, and it fails every decode whose batch does not fit into what is
\* left of the context's n_ctx positions.
llama_decode(cache, batch, cap) ==
    IF Len(cache) + Len(batch) <= cap THEN BOOLEAN ELSE {FALSE}

\* A prefill whose failure marks the engine as not loaded.
GenPrefill_unloads ==
    /\ pc = "G_prefill"
    /\ calls' = Append(calls, "llama_decode")
    /\ \E ok \in llama_decode(kv, prompt_tokens, n_ctx) :
          IF ok
          THEN /\ kv' = kv \o prompt_tokens
               /\ pc' = "G_sampler"
               /\ UNCHANGED <<exit, ret, is_loaded>>
          ELSE /\ kv' = kv
               /\ is_loaded' = FALSE
               /\ Return("prefill_failed", TextRet(<<>>))
    /\ UNCHANGED <<model, ctx, vocab, backend, aliveModels, aliveCtxs, modelFrees, ctxFrees,
                   nModels, n_ctx, arg, genvars, op, afterFree, lastLoadOk, prev, entry, sampled>>

\* A prefill that runs after the sampler chain was built and returns on
\* failure with the chain still alive.
GenPrefill_samplerFirst ==
    /\ pc = "G_prefill"
    /\ \E ok \in llama_decode(kv, prompt_tokens, n_ctx) :
          IF ok
          THEN /\ kv' = kv \o prompt_tokens
               /\ calls' = Append(calls, "llama_decode")
               /\ pc' = "G_sampler"
               /\ UNCHANGED <<exit, ret, sampler>>
          ELSE /\ kv' = kv
               /\ sampler' = sampler + 1
               /\ calls' = calls \o <<"llama_sampler_chain_init", "llama_decode">>
               /\ Return("prefill_failed", TextRet(<<>>))
    /\ UNCHANGED <<gvars, backend, aliveModels, aliveCtxs, modelFrees, ctxFrees, nModels,
                   n_ctx, arg, prompt_tokens, n_prompt_tokens, result, i, new_token,
                   op, afterFree, lastLoadOk, prev, entry, sampled>>

\* if (llama_decode(g_llama.ctx, batch) != 0) return "";
\* The library may fail the decode.
GenPrefill ==
    /\ pc = "G_prefill"
    /\ calls' = Append(calls, "llama_decode")
    /\ \E ok \in llama_decode(kv, prompt_tokens, n_ctx) :
          IF ok
          THEN /\ kv' = kv \o prompt_tokens
               /\ pc' = "G_sampler"
               /\ UNCHANGED <<exit, ret>>
          ELSE /\ \E done \in PartialDecodesInto(kv, prompt_tokens, n_ctx) : kv' = kv \o done
               /\ Return("prefill_failed", TextRet(<<>>))
    /\ UNCHANGED <<gvars, backend, aliveModels, aliveCtxs, modelFrees, ctxFrees, nModels,
                   n_ctx, arg, genvars, op, afterFree, lastLoadOk, prev, entry, sampled>>

\* sampler = llama_sampler_chain_init(...); two stages added; std::string result;
GenSampler ==
    /\ pc = "G_sampler"
    /\ sampler' = sampler + 1
    /\ calls' = Append(calls, "llama_sampler_chain_init")
    /\ result' = <<>>
    /\ i' = 0
    /\ pc' = "G_sample"
    /\ UNCHANGED <<gvars, libvars, arg, prompt_tokens, n_prompt_tokens, new_token,
                   op, afterFree, lastLoadOk, prev, entry, sampled, exit, ret>>

\* A loop test that is off by one.
LoopContinues_offByOne == i <= arg.maxTokens

\* for (int i = 0; i < max_gen; i++): the loop goes on
LoopContinues == i < arg.maxTokens

\* LLAMA_DEFAULT_SEED (llama.h): the seed value that asks the library to seed
\* the generator itself, from std::random_device or the clock.  It is
\* 0xFFFFFFFF, written here as the 32-bit integer of that bit pattern.
LLAMA_DEFAULT_SEED == 0 - 1

\* The token of highest logit after the cache contents (the model's weights
\* decide; here: two more "a", then the end of generation).
GreedyToken(cache) == IF Len(cache) >= 3 THEN 1 ELSE 2

\* The token a generator seeded with a fixed seed draws after the cache
\* contents.
SeededToken(seed, cache) == ((seed + Len(cache)) % Len(TestVocab)) + 1

\* llama_sampler_sample on the chain temp(temperature) -> dist(seed): the
\* tokens it can return.  temp with temperature <= 0 keeps the token of
\* highest logit only; dist draws with a generator seeded by seed, and the
\* library seeds it at random when seed is LLAMA_DEFAULT_SEED.
llama_sampler_sample(temperature, seed, cache) ==
    IF temperature <= 0 THEN {GreedyToken(cache)}
    ELSE IF seed = LLAMA_DEFAULT_SEED THEN Tokens
    ELSE {SeededToken(seed, cache)}

\* i < max_gen: new_token = llama_sampler_sample(...); the library draws a token.
GenSample ==
    /\ pc = "G_sample"
    /\ LoopContinues
    /\ \E tok \in llama_sampler_sample(arg.temperature, LLAMA_DEFAULT_SEED, kv) :
          /\ new_token' = tok
          /\ sampled' = Append(sampled, tok)
    /\ calls' = Append(calls, "llama_sampler_sample")
    /\ pc' = "G_eog"
    /\ UNCHANGED <<gvars, libvars, arg, prompt_tokens, n_prompt_tokens, sampler, result, i,
                   op, afterFree, lastLoadOk, prev, entry, exit, ret>>

\* i >= max_gen: the loop ends.
GenLoopEnd ==
    /\ pc = "G_sample"
    /\ ~LoopContinues
    /\ exit' = "max_tokens"
    /\ pc' = "G_done"
    /\ UNCHANGED <<gvars, libvars, arg, genvars, op, afterFree, lastLoadOk, prev, entry, calls, sampled, ret>>

\* An iteration that decodes the sampled token before looking at it.
GenCheckEog_decodesFirst ==
    /\ pc = "G_eog"
    /\ calls' = Append(calls, "llama_vocab_is_eog")
    /\ IF llama_vocab_is_eog(new_token)
       THEN /\ kv' = Append(kv, new_token)
            /\ exit' = "eog"
            /\ pc' = "G_done"
       ELSE /\ pc' = "G_piece"
            /\ UNCHANGED <<exit, kv>>
    /\ UNCHANGED <<gvars, backend, aliveModels, aliveCtxs, modelFrees, ctxFrees, nModels,
                   n_ctx, arg, genvars, op, afterFree, lastLoadOk, prev, entry, sampled, ret>>

\* An end-of-generation check that runs after the token's text was appended.
GenCheckEog_appendsFirst ==
    /\ pc = "G_eog"
    /\ calls' = Append(calls, "llama_vocab_is_eog")
    /\ IF llama_vocab_is_eog(new_token)
       THEN /\ result' = result \o TestVocab[new_token].piece
            /\ exit' = "eog"
            /\ pc' = "G_done"
       ELSE /\ pc' = "G_piece"
            /\ UNCHANGED <<result, exit>>
    /\ UNCHANGED <<gvars, libvars, arg, prompt_tokens, n_prompt_tokens, sampler, i,
                   new_token, op, afterFree, lastLoadOk, prev, entry, sampled, ret>>

\* if (llama_vocab_is_eog(g_llama.vocab, new_token)) break;
GenCheckEog ==
    /\ pc = "G_eog"
    /\ calls' = Append(calls, "llama_vocab_is_eog")
    /\ IF llama_vocab_is_eog(new_token)
       THEN /\ exit' = "eog"
            /\ pc' = "G_done"
       ELSE /\ pc' = "G_piece"
            /\ UNCHANGED exit
    /\ UNCHANGED <<gvars, libvars, arg, genvars, op, afterFree, lastLoadOk, prev, entry, sampled, ret>>

\* int n = llama_token_to_piece(vocab, new_token, buf, sizeof(buf), 0, true);
\* if (n > 0) result.append(buf, n);
GenAppendPiece ==
    /\ pc = "G_piece"
    /\ calls' = Append(calls, "llama_token_to_piece")
    /\ result' = IF llama_token_to_piece_n(new_token, BufSize) > 0
                 THEN result \o llama_token_to_piece_buf(
                                    new_token, llama_token_to_piece_n(new_token, BufSize))
                 ELSE result
    /\ pc' = "G_stop"
    /\ UNCHANGED <<gvars, libvars, arg, prompt_tokens, n_prompt_tokens, sampler, i,
                   new_token, op, afterFree, lastLoadOk, prev, entry, sampled, exit, ret>>

\* A stop check that looks for the marker in the newest fragment only.
HasStopMarker_inFragment(text) == Find(TestVocab[new_token].piece, StopMarker) # NPOS

\* result.find("<|im_end|>") != std::string::npos
HasStopMarker(text) == Find(text, StopMarker) # NPOS

\* size_t pos = result.find("<|im_end|>"); result = result.substr(0, pos);
CutAtStopMarker(text) == Substr0(text, Find(text, StopMarker))

\* if (result.find(marker) != npos) { result = result.substr(0, pos); break; }
GenCheckStop ==
    /\ pc = "G_stop"
    /\ IF HasStopMarker(result)
       THEN /\ result' = CutAtStopMarker(result)
            /\ exit' = "stop_marker"
            /\ pc' = "G_done"
       ELSE /\ pc' = "G_decode"
            /\ UNCHANGED <<result, exit>>
    /\ UNCHANGED <<gvars, libvars, arg, prompt_tokens, n_prompt_tokens, sampler, i,
                   new_token, op, afterFree, lastLoadOk, prev, entry, calls, sampled, ret>>

\* A decode step that returns from inside the loop when the decode fails,
\* skipping the release of the sampler chain.
GenDecode_leaksSampler ==
    /\ pc = "G_decode"
    /\ calls' = Append(calls, "llama_decode")
    /\ \E ok \in llama_decode(kv, <<new_token>>, n_ctx) :
          IF ok
          THEN /\ kv' = Append(kv, new_token)
               /\ i' = i + 1
               /\ pc' = "G_sample"
               /\ UNCHANGED <<exit, ret>>
          ELSE /\ Return("decode_failed", TextRet(result))
               /\ UNCHANGED <<kv, i>>
    /\ UNCHANGED <<gvars, backend, aliveModels, aliveCtxs, modelFrees, ctxFrees, nModels,
                   n_ctx, arg, prompt_tokens, n_prompt_tokens, sampler, result, new_token,
                   op, afterFree, lastLoadOk, prev, entry, sampled>>

\* A decode failure handled like a prefill failure: the text is dropped.
GenDecode_dropsText ==
    /\ pc = "G_decode"
    /\ calls' = Append(calls, "llama_decode")
    /\ \E ok \in llama_decode(kv, <<new_token>>, n_ctx) :
          IF ok
          THEN /\ kv' = Append(kv, new_token)
               /\ i' = i + 1
               /\ pc' = "G_sample"
               /\ UNCHANGED <<exit, result>>
          ELSE /\ exit' = "decode_failed"
               /\ result' = <<>>
               /\ pc' = "G_done"
               /\ UNCHANGED <<kv, i>>
    /\ UNCHANGED <<gvars, backend, aliveModels, aliveCtxs, modelFrees, ctxFrees, nModels,
                   n_ctx, arg, prompt_tokens, n_prompt_tokens, sampler, new_token,
                   op, afterFree, lastLoadOk, prev, entry, sampled, ret>>

\* if (llama_decode(g_llama.ctx, next_batch) != 0) break;  else i++
\* The library may fail the decode.
GenDecode ==
    /\ pc = "G_decode"
    /\ calls' = Append(calls, "llama_decode")
    /\ \E ok \in llama_decode(kv, <<new_token>>, n_ctx) :
          IF ok
          THEN /\ kv' = Append(kv, new_token)
               /\ i' = i + 1
               /\ pc' = "G_sample"
               /\ UNCHANGED exit
          ELSE /\ exit' = "decode_failed"
               /\ pc' = "G_done"
               /\ UNCHANGED <<kv, i>>
    /\ UNCHANGED <<gvars, backend, aliveModels, aliveCtxs, modelFrees, ctxFrees, nModels,
                   n_ctx, arg, prompt_tokens, n_prompt_tokens, sampler, result, new_token,
                   op, afterFree, lastLoadOk, prev, entry, sampled, ret>>

\* llama_sampler_free(sampler); return string_to_jstring(env, result);
GenDone ==
    /\ pc = "G_done"
    /\ sampler' = sampler - 1
    /\ calls' = Append(calls, "llama_sampler_free")
    /\ pc' = "idle"
    /\ ret' = TextRet(result)
    /\ UNCHANGED <<gvars, libvars, arg, prompt_tokens, n_prompt_tokens, result, i,
                   new_token, op, afterFree, lastLoadOk, prev, entry, sampled, exit>>

\* ------------------------------------------------------------------------
\* The bridge
\* ------------------------------------------------------------------------

Next ==
    \/ nativeInit
    \/ nativeIsLoaded
    \/ \E modelPath \in Paths, nCtx \in NCtxValues : nativeLoadModel(modelPath, nCtx)
    \/ LoadFreeCtx
    \/ LoadFreeModel
    \/ LoadModelFile
    \/ LoadCreateCtx
    \/ LoadCtxFailed
    \/ LoadDone
    \/ nativeFree
    \/ FreeCtx
    \/ FreeModel
    \/ FreeBackend
    \/ \E prompt \in Prompts, maxTokens \in MaxTokensValues, temperature \in Temperatures :
          nativeGenerate(prompt, maxTokens, temperature)
    \/ GenClear
    \/ GenTokenize
    \/ GenPrefill
    \/ GenSampler
    \/ GenSample
    \/ GenLoopEnd
    \/ GenCheckEog
    \/ GenAppendPiece
    \/ GenCheckStop
    \/ GenDecode
    \/ GenDone

Spec == Init /\ [][Next]_vars

\* The bridge used to repeat a generate call: one model is loaded, and generate
\* is called again and again with a one-token prompt and maxTokens 1 or MaxGen,
\* each call remembering the outcome of the one before.
NextRepeat ==
    \/ nativeInit
    \/ nModels = 0 /\ nativeLoadModel(Jstring(<<"a">>), 3)
    \/ LoadModelFile
    \/ LoadCreateCtx
    \/ LoadCtxFailed
    \/ LoadDone
    \/ \E maxTokens \in {1, MaxGen}, temperature \in Temperatures :
          nativeGenerateAgain(Jstring(<<"a">>), maxTokens, temperature)
    \/ GenClear
    \/ GenTokenize
    \/ GenPrefill
    \/ GenSampler
    \/ GenSample
    \/ GenLoopEnd
    \/ GenCheckEog
    \/ GenAppendPiece
    \/ GenCheckStop
    \/ GenDecode
    \/ GenDone

SpecRepeat == Init /\ [][NextRepeat]_vars

\* ------------------------------------------------------------------------
\* Properties
\* ------------------------------------------------------------------------

\* Whether the sequence of library calls made so far holds the call name.
Called(name) == \E k \in 1..Len(calls) : calls[k] = name

\* The engine and library state is what it was when the running call started.
SameAsEntry ==
    /\ model = entry.model /\ ctx = entry.ctx /\ vocab = entry.vocab
    /\ is_loaded = entry.is_loaded /\ backend = entry.backend
    /\ aliveModels = entry.aliveModels /\ aliveCtxs = entry.aliveCtxs
    /\ modelFrees = entry.modelFrees /\ ctxFrees = entry.ctxFrees

\* C1: a generate call that starts while the engine is not loaded (never
\* loaded, after a failed loadModel, after free) has returned the empty
\* string at once and has done no work: it made no library call (no cache
\* clear, tokenize, decode, sampler), sampled nothing, and left the handles,
\* the flag and every resource as they were.
C1_NotLoadedGenerateDoesNothing ==
    (op = "generate" /\ ~entry.is_loaded) =>
        /\ pc = "idle"
        /\ exit = "not_loaded"
        /\ ret = TextRet(<<>>)
        /\ calls = <<>>
        /\ sampled = <<>>
        /\ sampler = 0
        /\ kv = <<>>
        /\ SameAsEntry

\* A generate call was made after free released a model that had been loaded.
C1_Witness ==
    /\ op = "generate" /\ afterFree /\ pc = "idle"
    /\ ~entry.is_loaded
    /\ entry.modelFrees[1] = 1
    /\ ret = TextRet(<<>>)

\* C2: at every step at most one model and at most one context are alive,
\* the only live ones are those g_llama holds, every handle allocated so far
\* is either alive and never freed or freed exactly once, and a loadModel
\* that found a model loaded has freed the context and then the model before
\* it constructs the new model.
C2_SingleModelContextNoLeak ==
    /\ Cardinality(aliveModels) <= 1
    /\ Cardinality(aliveCtxs) <= 1
    /\ aliveModels \subseteq {model}
    /\ aliveCtxs \subseteq {ctx}
    /\ \A h \in Handles :
          /\ modelFrees[h] <= 1
          /\ ctxFrees[h] <= 1
          /\ h <= nModels => (h \in aliveModels <=> modelFrees[h] = 0)
          /\ h > nModels => (h \notin aliveModels /\ modelFrees[h] = 0)
          /\ h \in aliveCtxs => ctxFrees[h] = 0
    /\ pc = "L_load" =>
          /\ aliveModels = {} /\ aliveCtxs = {}
          /\ entry.is_loaded => calls = <<"llama_free", "llama_model_free">>

\* A second model was loaded over the first, whose context and model were freed.
C2_Witness ==
    /\ op = "loadModel" /\ pc = "idle" /\ entry.is_loaded
    /\ ret = BoolRet(TRUE)
    /\ nModels = 2 /\ aliveModels = {2} /\ aliveCtxs = {2}
    /\ modelFrees[1] = 1 /\ ctxFrees[1] = 1

\* The model file of the running loadModel cannot be parsed.
ParseFails == jstring_to_string(arg.modelPath) \notin ValidModelFiles

\* The context allocation of the finished loadModel failed.
CtxAllocFailed == Called("llama_init_from_model") /\ ctx = NULL

\* C3: a loadModel call, from whatever state it was made, whose file cannot
\* be parsed or whose context allocation failed has returned failure, leaves
\* the loaded flag false, and leaves no model and no context alive.
C3_FailedLoadLeavesNothing ==
    (op = "loadModel" /\ pc = "idle" /\ (ParseFails \/ CtxAllocFailed)) =>
        /\ ret = BoolRet(FALSE)
        /\ ~is_loaded
        /\ model = NULL /\ ctx = NULL
        /\ aliveModels = {} /\ aliveCtxs = {}

\* A loadModel made while a model was loaded parsed the new file, failed to
\* allocate the context, and freed the model it had parsed.
C3_Witness ==
    /\ op = "loadModel" /\ pc = "idle" /\ entry.is_loaded
    /\ CtxAllocFailed
    /\ ret = BoolRet(FALSE)
    /\ modelFrees[2] = 1

\* The text a sampled token adds to the result: its piece when it fits the
\* buffer, nothing otherwise.
Fragment(tok) ==
    IF Len(TestVocab[tok].piece) <= BufSize THEN TestVocab[tok].piece ELSE <<>>

\* The concatenated fragments of a sequence of tokens.
TextOf(toks) == Concat([k \in 1..Len(toks) |-> Fragment(toks[k])])

\* The stop marker starts at position p (0-based) of text t.
MarkerAt(t, p) ==
    /\ p + Len(StopMarker) <= Len(t)
    /\ \A k \in 1..Len(StopMarker) : t[p + k] = StopMarker[k]

\* Text t contains the stop marker.
ContainsMarker(t) == \E p \in 0..Len(t) : MarkerAt(t, p)

\* The part of t before the first occurrence of the stop marker.
BeforeFirstMarker(t) ==
    SubSeq(t, 1, CHOOSE p \in 0..Len(t) :
                     MarkerAt(t, p) /\ \A q \in 0..(p - 1) : ~MarkerAt(t, q))

\* All but the last element of a sequence.
Front(s) == SubSeq(s, 1, Len(s) - 1)

\* The running generate call is inside its sampling loop.
InLoop == pc \in {"G_sample", "G_eog", "G_piece", "G_stop", "G_decode"}

\* The running generate call has left its loop (or has returned).
LoopLeft == pc \in {"G_done", "idle"}

\* The tokens whose fragments the running generate call has appended: all it
\* sampled, but for the newest one while that is still being checked and for
\* the end-of-generation token that ended the loop.
AppendedTokens ==
    IF pc \in {"G_eog", "G_piece"} \/ exit = "eog" THEN Front(sampled) ELSE sampled

\* The text accumulated by the running generate call, before any cut.
Accumulated == TextOf(AppendedTokens)

\* C4: the text generate returns never contains <|im_end|>.  The loop goes on
\* only while the accumulated text is free of the marker; as soon as the
\* fragments sampled so far contain it (split over fragments or followed by
\* more text), the loop has stopped by the stop-marker exit and the result is
\* the accumulated text before the marker's first occurrence.
C4_StopMarkerNeverReturned ==
    op = "generate" =>
        /\ pc # "G_stop" => ~ContainsMarker(result)
        /\ pc = "idle" => ~ContainsMarker(ret.text)
        /\ (InLoop /\ pc # "G_stop") =>
              (result = Accumulated /\ ~ContainsMarker(Accumulated))
        /\ (LoopLeft /\ ContainsMarker(Accumulated)) =>
              /\ exit = "stop_marker"
              /\ ~ContainsMarker(TextOf(Front(sampled)))
              /\ result = BeforeFirstMarker(Accumulated)
              /\ pc = "idle" => ret.text = BeforeFirstMarker(Accumulated)
        /\ (LoopLeft /\ ~ContainsMarker(Accumulated)) =>
              (exit # "stop_marker" /\ result = Accumulated)

\* The marker arrived split over two fragments after one fragment of text.
C4_Witness ==
    /\ op = "generate" /\ pc = "idle" /\ exit = "stop_marker"
    /\ sampled = <<2, 3, 4>>
    /\ ret.text = <<"a">>

\* max(maxTokens, 0): the number of iterations the loop may make.
MaxIterations == IF arg.maxTokens > 0 THEN arg.maxTokens ELSE 0

\* The number of library calls named name made by the running call.
CallCount(name) == Cardinality({ k \in 1..Len(calls) : calls[k] = name })

\* A measure of the work a generate call has left; every step lowers it.
GenMeasure ==
    CASE pc = "idle"       -> 0
      [] pc = "G_done"     -> 1
      [] pc = "G_decode"   -> 5 * (MaxIterations - i) + 2
      [] pc = "G_stop"     -> 5 * (MaxIterations - i) + 3
      [] pc = "G_piece"    -> 5 * (MaxIterations - i) + 4
      [] pc = "G_eog"      -> 5 * (MaxIterations - i) + 5
      [] pc = "G_sample"   -> 5 * (MaxIterations - i) + 6
      [] pc = "G_sampler"  -> 5 * MaxIterations + 7
      [] pc = "G_prefill"  -> 5 * MaxIterations + 8
      [] pc = "G_tokenize" -> 5 * MaxIterations + 9
      [] pc = "G_clear"    -> 5 * MaxIterations + 10

\* Inside a generate call: at most maxTokens tokens sampled and fragments
\* appended, the next step of the call can be taken, and nothing is sampled
\* and "" is returned when maxTokens is not positive.
C5_Bounded ==
    op = "generate" =>
        /\ Len(sampled) <= MaxIterations
        /\ CallCount("llama_sampler_sample") <= MaxIterations
        /\ CallCount("llama_token_to_piece") <= MaxIterations
        /\ i <= MaxIterations
        /\ GenMeasure >= 0
        /\ pc # "idle" => ENABLED Next
        /\ (arg.maxTokens <= 0 /\ pc = "idle") =>
              (sampled = <<>> /\ ret = TextRet(<<>>))

\* Every step of a running generate call lowers GenMeasure.
C5_StepLowersMeasure ==
    (op = "generate" /\ pc # "idle") => GenMeasure' < GenMeasure

\* C5: every generate call on a loaded engine terminates (each of its steps
\* lowers a natural-valued measure and a next step is always possible) after
\* sampling at most maxTokens tokens and appending at most maxTokens
\* fragments; with maxTokens <= 0 it samples nothing and returns "".
C5_GenerateTerminatesWithinMaxTokens ==
    []C5_Bounded /\ [][C5_StepLowersMeasure]_vars

\* A generate call ran its loop maxTokens = 3 times and returned three fragments.
C5_Witness ==
    /\ op = "generate" /\ pc = "idle" /\ exit = "max_tokens"
    /\ arg.maxTokens = 3 /\ i = 3 /\ Len(sampled) = 3
    /\ ret.text = <<"a", "a", "a">>

\* C6: when an end-of-generation token is sampled at iteration k < maxTokens
\* the loop stops there: it is the last token sampled, its text is not
\* appended, and the result (and the returned text) is exactly the text of
\* the k tokens sampled before it, none of which was an end-of-generation
\* token.
C6_EogStopsWithEarlierText ==
    op = "generate" =>
        /\ exit = "eog" =>
              /\ LoopLeft
              /\ i < arg.maxTokens
              /\ Len(sampled) = i + 1
              /\ llama_vocab_is_eog(sampled[i + 1])
              /\ \A k \in 1..i : ~llama_vocab_is_eog(sampled[k])
              /\ result = TextOf(SubSeq(sampled, 1, i))
              /\ pc = "idle" => ret.text = TextOf(SubSeq(sampled, 1, i))
        /\ \A k \in 1..Len(sampled) :
              llama_vocab_is_eog(sampled[k]) =>
                  /\ k = Len(sampled)
                  /\ pc = "G_eog" \/ exit = "eog"

\* The end-of-generation token was sampled at iteration 2 of 3.
C6_Witness ==
    /\ op = "generate" /\ pc = "idle" /\ exit = "eog"
    /\ arg.maxTokens = 3 /\ i = 2
    /\ sampled = <<2, 2, 1>>
    /\ ret.text = <<"a", "a">>

CacheClearedWhenMemoryGiven ==
    (op = "generate" /\ Called("llama_get_memory")) =>
        /\ calls[1] = "llama_get_memory"
        /\ Called("llama_memory_clear") =>
              /\ calls[2] = "llama_memory_clear"
              /\ pc \in {"G_tokenize", "G_prefill"} => kv = <<>>
              /\ pc = "G_sampler" => kv = TokensOf(jstring_to_string(arg.prompt))

\* A call that got no memory handle has prefilled its prompt on top of the
\* tokens an earlier call left in the cache.
StaleCacheKept ==
    /\ op = "generate" /\ pc = "G_sampler"
    /\ ~Called("llama_memory_clear")
    /\ arg.prompt = Jstring(<<"a">>)
    /\ Len(kv) > 1

\* C8: a free call made right after a free call releases nothing: it calls
\* neither llama_free nor llama_model_free, the backend is already released
\* and stays so (llama_backend_free is called again and finds nothing to
\* release), and the engine and library state stays exactly as the first
\* call left it.
C8_SecondFreeIsNoOp ==
    (op = "free" /\ afterFree) =>
        /\ SameAsEntry
        /\ ~backend /\ ~is_loaded /\ model = NULL /\ ctx = NULL
        /\ aliveModels = {} /\ aliveCtxs = {}
        /\ ~Called("llama_free") /\ ~Called("llama_model_free")
        /\ pc = "idle" => calls = <<"llama_backend_free">>

\* The second of two free calls in a row returned; the first had released a
\* loaded model and its context.
C8_Witness ==
    /\ op = "free" /\ afterFree /\ pc = "idle"
    /\ entry.modelFrees[1] = 1 /\ entry.ctxFrees[1] = 1
    /\ nModels = 1

\* C9: a context is never alive while the model it was created from is freed;
\* within one call llama_free never comes after llama_model_free; free
\* releases the backend only when no context and no model is alive, and after
\* free the flag is false and nothing is alive.
C9_ContextFreedBeforeModel ==
    /\ \A c \in aliveCtxs : c \in aliveModels
    /\ \A j \in 1..Len(calls) : \A k \in 1..Len(calls) :
          (calls[j] = "llama_model_free" /\ calls[k] = "llama_free") => k < j
    /\ op = "free" =>
          /\ (pc = "F_backend" \/ Called("llama_backend_free")) =>
                (aliveCtxs = {} /\ aliveModels = {} /\ ctx = NULL /\ model = NULL)
          /\ pc = "idle" =>
                /\ ~is_loaded /\ ~backend
                /\ calls[Len(calls)] = "llama_backend_free"
                /\ entry.is_loaded =>
                      calls = <<"llama_free", "llama_model_free", "llama_backend_free">>
    /\ (op = "loadModel" /\ entry.is_loaded /\ Called("llama_model_load_from_file")) =>
          SubSeq(calls, 1, 3) =
              <<"llama_free", "llama_model_free", "llama_model_load_from_file">>

\* A free call released a loaded engine: context, model, backend, in this order.
C9_Witness ==
    /\ op = "free" /\ pc = "idle" /\ entry.is_loaded /\ entry.backend
    /\ calls = <<"llama_free", "llama_model_free", "llama_backend_free">>
    /\ aliveCtxs = {} /\ aliveModels = {}

\* C10: when the decode of the token sampled at iteration i fails, the loop
\* stops and generate returns the text accumulated so far: the fragments of
\* all i + 1 tokens sampled, none of them an end-of-generation token and the
\* text free of the stop marker, not the empty result of a prefill failure.
C10_DecodeFailureReturnsPartialText ==
    (op = "generate" /\ exit = "decode_failed") =>
        /\ LoopLeft
        /\ Len(sampled) = i + 1
        /\ \A k \in 1..Len(sampled) : ~llama_vocab_is_eog(sampled[k])
        /\ result = TextOf(sampled)
        /\ ~ContainsMarker(result)
        /\ pc = "idle" => ret.text = TextOf(sampled)

\* The decode failed at iteration 1, after two fragments had been appended.
C10_Witness ==
    /\ op = "generate" /\ pc = "idle" /\ exit = "decode_failed"
    /\ i = 1
    /\ sampled = <<2, 2>>
    /\ ret.text = <<"a", "a">>


\* C11: when the prefill decode of the prompt fails, generate has returned the
\* empty string at once: no token was sampled and no sampler chain was
\* created (none is alive, none was initialised or freed).
C11_PrefillFailureReturnsEmpty ==
    (op = "generate" /\ exit = "prefill_failed") =>
        /\ pc = "idle"
        /\ ret = TextRet(<<>>)
        /\ sampled = <<>>
        /\ result = <<>>
        /\ sampler = 0
        /\ ~Called("llama_sampler_chain_init")
        /\ ~Called("llama_sampler_sample")
        /\ ~Called("llama_sampler_free")
        /\ calls[Len(calls)] = "llama_decode" /\ CallCount("llama_decode") = 1

\* The prefill of a one-token prompt failed on a loaded engine.
C11_Witness ==
    /\ op = "generate" /\ pc = "idle" /\ exit = "prefill_failed"
    /\ entry.is_loaded /\ is_loaded
    /\ arg.prompt = Jstring(<<"a">>) /\ arg.maxTokens = 3
    /\ ret = TextRet(<<>>)

\* The number of tokens the prompt of the running generate call encodes to.
TrueTokenCount == Len(TokensOf(jstring_to_string(arg.prompt)))

\* C12: the prompt is tokenized into a buffer of llama_n_ctx tokens, which is
\* the contextCapacity the model was loaded with.  When the prompt needs more
\* tokens than that, generate has returned "" right after tokenizing, without
\* prefill or sampling and without keeping any (truncated) token sequence;
\* when it fits, the tokens kept and handed to the prefill are exactly the
\* prompt's tokens.
C12_TokenizeOverflowFails ==
    /\ (op = "loadModel" /\ pc = "idle" /\ ret = BoolRet(TRUE)) => n_ctx = arg.nCtx
    /\ (op = "generate" /\ Called("llama_tokenize")) =>
          /\ TrueTokenCount > n_ctx =>
                /\ pc = "idle" /\ exit = "tokenize_failed"
                /\ ret = TextRet(<<>>)
                /\ n_prompt_tokens < 0
                /\ prompt_tokens = <<>>
                /\ ~Called("llama_decode")
                /\ sampled = <<>>
                /\ Called("llama_memory_clear") => kv = <<>>
          /\ TrueTokenCount <= n_ctx =>
                /\ exit # "tokenize_failed"
                /\ n_prompt_tokens = TrueTokenCount
                /\ Len(prompt_tokens) = n_prompt_tokens
                /\ prompt_tokens = TokensOf(jstring_to_string(arg.prompt))

\* A three-token prompt was given to a context of capacity 2.
C12_Witness ==
    /\ op = "generate" /\ pc = "idle" /\ exit = "tokenize_failed"
    /\ n_ctx = 2
    /\ arg.prompt = Jstring(<<"a", "a", "a">>)
    /\ ret = TextRet(<<>>)


\* The exits of generate that leave the generation loop.
LoopExits == {"max_tokens", "eog", "stop_marker", "decode_failed"}

\* The prompt of the running generate call was decoded into the cleared cache.
PrefillSucceeded ==
    /\ CallCount("llama_decode") >= 1
    /\ Len(kv) >= Len(prompt_tokens) + i
    /\ SubSeq(kv, Len(kv) - Len(prompt_tokens) - i + 1, Len(kv) - i) = prompt_tokens
    /\ Called("llama_memory_clear") => SubSeq(kv, 1, Len(prompt_tokens)) = prompt_tokens

\* C15: a sampler chain is created only after a successful prefill; it is
\* released exactly once before the call returns, on each of the four exits of
\* the loop; and no sampler chain is alive between generate calls.
C15_SamplerChainPaired ==
    /\ sampler \in {0, 1}
    /\ pc = "idle" => sampler = 0
    /\ op = "generate" =>
          /\ sampler = CallCount("llama_sampler_chain_init")
                         - CallCount("llama_sampler_free")
          /\ CallCount("llama_sampler_chain_init") <= 1
          /\ Called("llama_sampler_chain_init") =>
                /\ PrefillSucceeded
                /\ exit \notin {"not_loaded", "tokenize_failed", "prefill_failed"}
          /\ sampler = 1 <=> (InLoop \/ pc = "G_done")
          /\ (pc = "idle" /\ exit \in LoopExits) =>
                /\ CallCount("llama_sampler_chain_init") = 1
                /\ CallCount("llama_sampler_free") = 1
                /\ calls[Len(calls)] = "llama_sampler_free"
    /\ op # "generate" => ~Called("llama_sampler_chain_init")

\* A generate call has returned through the decode failure in its loop, its
\* sampler chain created and released once.
C15_Witness ==
    /\ op = "generate" /\ pc = "idle" /\ exit = "decode_failed"
    /\ CallCount("llama_sampler_chain_init") = 1
    /\ CallCount("llama_sampler_free") = 1
    /\ sampler = 0


\* The library calls of one iteration of the generation loop, in source order.
IterationOrder ==
    <<"llama_sampler_sample", "llama_vocab_is_eog", "llama_token_to_piece", "llama_decode">>

\* The library calls the running generate call has made inside its loop: those
\* after the creation of the sampler chain and before its release.
LoopCalls ==
    LET start == CHOOSE k \in 1..Len(calls) : calls[k] = "llama_sampler_chain_init"
        inLoop == SubSeq(calls, start + 1, Len(calls))
    IN  IF inLoop # <<>> /\ inLoop[Len(inLoop)] = "llama_sampler_free"
        THEN Front(inLoop)
        ELSE inLoop

\* The tokens the running generate call has decoded in its loop.
DecodedTokens == SubSeq(sampled, 1, i)

\* C17: each iteration runs sample, end-of-generation check, detokenize and
\* append, stop-marker check, incremental decode, in that order.  So a token
\* is decoded only after it passed both checks: no decoded token is an
\* end-of-generation token or completes the stop marker, the token that ended
\* the loop by either check is not in the cache, and the cache ends with the
\* prompt followed by one position per iteration that decoded successfully
\* (it holds nothing else when the call cleared it).
C17_IterationOrder ==
    (op = "generate" /\ Called("llama_sampler_chain_init")) =>
      LET loopCalls == LoopCalls IN
        /\ \A k \in 1..Len(loopCalls) : loopCalls[k] = IterationOrder[((k - 1) % 4) + 1]
        /\ pc = "G_eog"    => Len(loopCalls) % 4 = 1
        /\ pc = "G_piece"  => Len(loopCalls) % 4 = 2 /\ ~llama_vocab_is_eog(new_token)
        /\ pc = "G_stop"   => Len(loopCalls) % 4 = 3 /\ result = TextOf(sampled)
        /\ pc = "G_decode" =>
              /\ Len(loopCalls) % 4 = 3
              /\ ~llama_vocab_is_eog(new_token)
              /\ result = TextOf(sampled) /\ ~ContainsMarker(result)
        /\ i \in {Len(sampled), Len(sampled) - 1}
        /\ Len(kv) >= Len(prompt_tokens) + i
        /\ SubSeq(kv, Len(kv) - Len(prompt_tokens) - i + 1, Len(kv))
              = prompt_tokens \o DecodedTokens
        /\ Called("llama_memory_clear") =>
              /\ kv = prompt_tokens \o DecodedTokens
              /\ Len(kv) = Len(prompt_tokens) + i
        /\ \A k \in 1..i : ~llama_vocab_is_eog(sampled[k])
        /\ ~ContainsMarker(TextOf(DecodedTokens))
        /\ exit = "eog" =>
              /\ llama_vocab_is_eog(sampled[Len(sampled)])
              /\ Len(sampled) = i + 1
        /\ exit = "stop_marker" =>
              /\ ContainsMarker(TextOf(sampled))
              /\ Len(sampled) = i + 1

\* The second sampled token completed the stop marker begun by the first: the
\* first was decoded into the cache, the second was not.
C17_Witness ==
    /\ op = "generate" /\ pc = "idle" /\ exit = "stop_marker"
    /\ sampled = <<3, 4>>
    /\ i = 1
    /\ kv = prompt_tokens \o <<3>>


\* C18: whenever no call is running, the loaded flag is set iff the model
\* handle is non-null iff the context handle is non-null; when the flag is
\* set the vocabulary handle is the one of the stored model, and model and
\* context are live objects.  A vocabulary handle of a freed model is stored
\* only while the flag is clear, and a generate call entered with the flag
\* clear makes no library call at all.
C18_HandlesAgreeWithFlag ==
    pc = "idle" =>
        /\ is_loaded <=> model # NULL
        /\ model # NULL <=> ctx # NULL
        /\ is_loaded =>
              /\ vocab = model
              /\ model \in aliveModels
              /\ ctx \in aliveCtxs
        /\ (vocab # NULL /\ vocab \notin aliveModels) => ~is_loaded
        /\ (op = "generate" /\ ~entry.is_loaded) => calls = <<>>

\* A generate call has returned on an engine whose stored vocabulary handle
\* belongs to a model that was freed.
C18_Witness ==
    /\ pc = "idle" /\ op = "generate"
    /\ ~is_loaded /\ model = NULL /\ ctx = NULL
    /\ vocab # NULL /\ vocab \notin aliveModels

\* C19: generate leaves the lifecycle state alone at every point of the call
\* and so on each of its exits: the loaded flag, the model, context and
\* vocabulary handles and the backend are as they were when the call was
\* entered, and no object was created or released.
C19_GenerateKeepsLifecycleState ==
    op = "generate" =>
        /\ is_loaded = entry.is_loaded
        /\ model = entry.model
        /\ ctx = entry.ctx
        /\ vocab = entry.vocab
        /\ backend = entry.backend
        /\ aliveModels = entry.aliveModels
        /\ aliveCtxs = entry.aliveCtxs
        /\ exit \in {"running", "not_loaded", "tokenize_failed", "prefill_failed",
                     "eog", "stop_marker", "decode_failed", "max_tokens"}

\* A generate call failed in its prefill and the engine is still loaded.
C19_Witness ==
    /\ op = "generate" /\ pc = "idle" /\ exit = "prefill_failed"
    /\ is_loaded /\ model # NULL /\ ctx # NULL /\ vocab = model
    /\ ret = TextRet(<<>>)
    /\ arg.prompt = Jstring(<<"a", "a", "a">>)


\* C16: the engine becomes Loaded only by a loadModel issued with the backend
\* initialised (BackendReady or Loaded), and no model load is performed while
\* the backend is Uninitialized: before nativeInit, or after nativeFree
\* released the backend without a new nativeInit.  nativeLoadModel never looks
\* at the backend, so this does not hold of the bridge.
C16_NoLoadWhileUninitialized ==
    /\ (op = "loadModel" /\ Called("llama_model_load_from_file")) => entry.backend
    /\ (op = "loadModel" /\ exit = "loaded") => entry.backend
    /\ is_loaded => backend


\* C14: isLoaded is a pure query.  It makes no library call, returns the
\* loaded flag and leaves the model, context and vocabulary handles, the flag,
\* the backend and the live objects as they were (the call is one step, so
\* entry holds the state right before it); and what it returns is true
\* exactly when the last nativeLoadModel or nativeFree call to return was a
\* load that returned JNI_TRUE.
C14_IsLoadedPureQuery ==
    /\ op = "isLoaded" =>
          /\ pc = "idle"
          /\ calls = <<>>
          /\ ret = BoolRet(is_loaded)
          /\ SameAsEntry
          /\ is_loaded = entry.is_loaded /\ model = entry.model
          /\ ctx = entry.ctx /\ vocab = entry.vocab /\ backend = entry.backend
          /\ ret.flag = lastLoadOk
    /\ pc = "idle" => is_loaded = lastLoadOk

\* isLoaded was called right after the free of a loaded engine and returned
\* false.
C14_Witness ==
    /\ op = "isLoaded" /\ pc = "idle" /\ afterFree
    /\ modelFrees[1] = 1
    /\ ret = BoolRet(FALSE)


\* C13: two consecutive generate calls against the same loaded model with
\* identical prompt, temperature and maxTokens return identical text, when
\* the library answers alike in both: both calls got a memory handle and
\* cleared the cache, and the decodes succeed or fail alike (same exit after
\* the same number of iterations).  The sampler is seeded with LLAMA_DEFAULT_SEED,
\* which is no fixed seed, so this does not hold for a temperature above 0.
C13_ConsecutiveGeneratesAgree ==
    (op = "generate" /\ pc = "idle" /\ prev.valid /\ exit = prev.exit /\ i = prev.i
       /\ prev.cleared /\ Called("llama_memory_clear")) =>
        ret.text = prev.text

\* With a temperature of 0 or below the repeated call returns the same text.
GreedyGeneratesAgree ==
    (op = "generate" /\ pc = "idle" /\ prev.valid /\ exit = prev.exit /\ i = prev.i
       /\ prev.cleared /\ Called("llama_memory_clear")
       /\ arg.temperature <= 0) =>
        ret.text = prev.text

====
